---- MODULE Spec2Model ----
(***************************************************************************)
(* Model of roles_lambda_function.py: replication of DocumentDB change     *)
(* events of the roles collection into a Redshift table (documentdb.roles) *)
(* and an Oracle table (CFG_ROLE), one pair of transactions per batch.     *)
(***************************************************************************)
EXTENDS Integers, Sequences, FiniteSets, TLC

(***************************************************************************)
(* Bounds of the model.                                                    *)
(***************************************************************************)
\* longest event batch handed to lambda_handler
MaxBatch == 2
\* number of times the batch is delivered to lambda_handler
MaxDeliveries == 2
\* number of direct calls of a sink function in one behaviour of UnitSpec
MaxCalls == 2

(***************************************************************************)
(* Python values.  A value is a record [t, v]: t is the Python type and v  *)
(* the text str() gives for it.                                            *)
(***************************************************************************)
None == [t |-> "none", v |-> "None"]

Str(s) == [t |-> "str", v |-> s]

PyInt(s) == [t |-> "int", v |-> s]

True == [t |-> "bool", v |-> "True"]

False == [t |-> "bool", v |-> "False"]

\* {} and a dict without the '$oid' key
EmptyDict == [t |-> "dict", v |-> "{}"]

OtherDict == [t |-> "dict", v |-> "{'k': 1}"]

\* {'$oid': x}
Oid(x) == [t |-> "oid", v |-> x.v, oid |-> x]

\* bool(x): Python truth value
Truthy(x) ==
    CASE x.t = "none" -> FALSE
      [] x.t = "str"  -> x.v # ""
      [] x.t = "int"  -> x.v # "0"
      [] x.t = "bool" -> x.v = "True"
      [] x.t = "dict" -> x.v # "{}"
      [] OTHER        -> TRUE

\* str(x)
PyStr(x) == Str(x.v)

\* dict.get(key, default): a document is a record whose fields are the keys
\* it may hold; the value Missing stands for a key the dict does not have
Missing == [t |-> "missing", v |-> ""]

Get(doc, key, default) == IF doc[key] = Missing THEN default ELSE doc[key]

(***************************************************************************)
(* extract_id                                                              *)
(***************************************************************************)
\* variant: the bare value is returned as it is, without str()
extract_id_bare_unconverted(doc) ==
    LET _id_raw == Get(doc, "_id", None)
    IN  IF _id_raw.t = "oid"
        THEN _id_raw.oid
        ELSE IF Truthy(_id_raw) THEN _id_raw ELSE None

extract_id(doc) ==
    LET _id_raw == Get(doc, "_id", None)
    IN  IF _id_raw.t = "oid"
        THEN _id_raw.oid
        ELSE IF Truthy(_id_raw) THEN PyStr(_id_raw) ELSE None

(***************************************************************************)
(* A database cursor together with the transaction of its connection.      *)
(*   tbl      the rows the transaction sees (committed rows and its own    *)
(*            uncommitted changes)                                         *)
(*   log      the statements handed to cursor.execute, in order: k the     *)
(*            kind, key the id it names, rc the rows it affects, hit the   *)
(*            rows with that id before it, ok whether it returned          *)
(*   rowcount cursor.rowcount after the last statement                     *)
(*   raised   an exception raised by execute is propagating                *)
(*   failIn   k > 0: the k-th execute from now raises; 0: none does        *)
(*   ev       position in the batch of the event being processed           *)
(*   clock    the number of statements issued so far on either cursor      *)
(*            while an event is processed; a statement's at is its         *)
(*            position in that order of issue                              *)
(***************************************************************************)
\* cursor.execute that raises: the statement changes nothing
ExecuteRaises(c, stmt) ==
    [c EXCEPT !.raised = TRUE, !.failIn = 0, !.clock = @ + 1,
              !.log = Append(@, [stmt EXCEPT !.ok = FALSE, !.at = c.clock + 1])]

ExecuteDone(c, stmt, tbl) ==
    [c EXCEPT !.tbl = tbl, !.rowcount = stmt.rc,
              !.failIn = IF @ > 1 THEN @ - 1 ELSE 0, !.clock = @ + 1,
              !.log = Append(@, [stmt EXCEPT !.at = c.clock + 1])]

(***************************************************************************)
(* Redshift: documentdb.roles (id, data, last_update_date).  The table has *)
(* no enforced uniqueness: INSERT always adds a row.                       *)
(***************************************************************************)
json_dumps(role) == [json |-> role]

\* WHERE id = %s: the positions of the rows with that id
RsRowsWithId(tbl, id) == {i \in 1..Len(tbl) : tbl[i].id = id}

RsInsert(c, id, data, last_update_date) ==
    LET stmt == [k |-> "INSERT", key |-> id.v, rc |-> 1,
                 hit |-> Cardinality(RsRowsWithId(c.tbl, id.v)), ok |-> TRUE,
                 ev |-> c.ev, at |-> 0]
        row  == [id |-> id.v, data |-> data, last_update_date |-> last_update_date]
    IN  IF c.failIn = 1 THEN ExecuteRaises(c, stmt)
        ELSE ExecuteDone(c, stmt, Append(c.tbl, row))

RsUpdate(c, data, last_update_date, id) ==
    LET hits == RsRowsWithId(c.tbl, id.v)
        stmt == [k |-> "UPDATE", key |-> id.v, rc |-> Cardinality(hits),
                 hit |-> Cardinality(hits), ok |-> TRUE, ev |-> c.ev, at |-> 0]
        tbl  == [i \in 1..Len(c.tbl) |->
                    IF i \in hits
                    THEN [c.tbl[i] EXCEPT !.data = data,
                                          !.last_update_date = last_update_date]
                    ELSE c.tbl[i]]
    IN  IF c.failIn = 1 THEN ExecuteRaises(c, stmt)
        ELSE ExecuteDone(c, stmt, tbl)

\* variant: a missing _id raises instead of being skipped
insert_redshift_role_raising(cursor, role) ==
    LET id == extract_id(role)
    IN  IF ~Truthy(id) THEN [cursor EXCEPT !.raised = TRUE]
        ELSE RsInsert(cursor, id, json_dumps(role),
                      Get(role, "last_update_date", None))

insert_redshift_role(cursor, role) ==
    LET id == extract_id(role)
    IN  IF ~Truthy(id) THEN cursor
        ELSE RsInsert(cursor, id, json_dumps(role),
                      Get(role, "last_update_date", None))

\* variant: the INSERT follows the UPDATE whatever cursor.rowcount is
update_redshift_role_always_insert(cursor, role) ==
    LET id == extract_id(role)
        c1 == RsUpdate(cursor, json_dumps(role),
                       Get(role, "last_update_date", None), id)
    IN  IF ~Truthy(id) THEN cursor
        ELSE IF c1.raised THEN c1
        ELSE insert_redshift_role(c1, role)

update_redshift_role(cursor, role) ==
    LET id == extract_id(role)
        c1 == RsUpdate(cursor, json_dumps(role),
                       Get(role, "last_update_date", None), id)
    IN  IF ~Truthy(id) THEN cursor
        ELSE IF c1.raised THEN c1
        ELSE IF c1.rowcount = 0 THEN insert_redshift_role(c1, role)
        ELSE c1

(***************************************************************************)
(* Oracle: CFG_ROLE (ROLEID, ROLENAME, ..., MODIFIEDBY, MODIFIEDDATETIME). *)
(* ROLENAME stands for the six columns copied from the document in the     *)
(* same way (ROLEDESCRIPTION, ROLESTATUS, TAG, CATEGORY, TOOLTIP).         *)
(***************************************************************************)
IntegrationId == "americold_compass"

\* ON (tgt.ROLEID = src.role_id), WHERE ROLEID = :id
OraRowsWithId(tbl, id) == {i \in 1..Len(tbl) : tbl[i].ROLEID = id}

\* variant: INSERT INTO CFG_ROLE in place of MERGE
OraMergeInsertOnly(c, params) ==
    LET row  == [ROLEID |-> params.role_id.v, ROLENAME |-> params.role_name,
                 MODIFIEDBY |-> params.creator_id,
                 MODIFIEDDATETIME |-> params.create_date]
        stmt == [k |-> "MERGE", key |-> params.role_id.v, rc |-> 1,
                 hit |-> Cardinality(OraRowsWithId(c.tbl, params.role_id.v)),
                 ok |-> TRUE, ev |-> c.ev, at |-> 0]
    IN  IF c.failIn = 1 THEN ExecuteRaises(c, stmt)
        ELSE ExecuteDone(c, stmt, Append(c.tbl, row))

OraMerge(c, params) ==
    LET hits == OraRowsWithId(c.tbl, params.role_id.v)
        tbl  == [i \in 1..Len(c.tbl) |->
                    IF i \in hits
                    THEN [c.tbl[i] EXCEPT
                            !.ROLENAME = params.role_name,
                            !.MODIFIEDBY = params.last_updater_id,
                            !.MODIFIEDDATETIME = params.last_update_date]
                    ELSE c.tbl[i]]
        row  == [ROLEID |-> params.role_id.v, ROLENAME |-> params.role_name,
                 MODIFIEDBY |-> params.creator_id,
                 MODIFIEDDATETIME |-> params.create_date]
        n    == Cardinality(hits)
        stmt == [k |-> "MERGE", key |-> params.role_id.v,
                 rc |-> IF n = 0 THEN 1 ELSE n, hit |-> n, ok |-> TRUE,
                 ev |-> c.ev, at |-> 0]
    IN  IF c.failIn = 1 THEN ExecuteRaises(c, stmt)
        ELSE ExecuteDone(c, stmt,
                 IF n = 0 THEN Append(c.tbl, row) ELSE tbl)

OraDelete(c, id) ==
    LET n    == Cardinality(OraRowsWithId(c.tbl, id.v))
        stmt == [k |-> "DELETE", key |-> id.v, rc |-> n, hit |-> n,
                 ok |-> TRUE, ev |-> c.ev, at |-> 0]
    IN  IF c.failIn = 1 THEN ExecuteRaises(c, stmt)
        ELSE ExecuteDone(c, stmt,
                 SelectSeq(c.tbl, LAMBDA r : r.ROLEID # id.v))

\* variant: the creator and the updater are taken from the document when
\* it names them
OracleParamsFromDocument(role, role_id) ==
    [role_id |-> role_id,
     role_name |-> Get(role, "role_name", None),
     creator_id |-> Get(role, "creator_id", Str(IntegrationId)).v,
     create_date |-> Get(role, "create_date", None),
     last_updater_id |-> Get(role, "last_updater_id", Str(IntegrationId)).v,
     last_update_date |-> Get(role, "last_update_date", None)]

OracleParams(role, role_id) ==
    [role_id |-> role_id,
     role_name |-> Get(role, "role_name", None),
     creator_id |-> IntegrationId,
     create_date |-> Get(role, "create_date", None),
     last_updater_id |-> IntegrationId,
     last_update_date |-> Get(role, "last_update_date", None)]

\* variant: is_deleted is not looked at for insert, update and replace
update_oracle_role_ignoring_flag(cursor, role, operation_type) ==
    LET role_id == Get(role, "role_id", None)
    IN  IF ~Truthy(role_id) THEN cursor
        ELSE IF operation_type \in {Str("insert"), Str("update"), Str("replace")}
        THEN OraMerge(cursor, OracleParams(role, role_id))
        ELSE IF operation_type = Str("delete")
        THEN OraDelete(cursor, role_id)
        ELSE cursor

\* variant: is_deleted alone decides between MERGE and DELETE
update_oracle_role_flag_only(cursor, role, operation_type) ==
    LET role_id    == Get(role, "role_id", None)
        is_deleted == Get(role, "is_deleted", False)
    IN  IF ~Truthy(role_id) THEN cursor
        ELSE IF ~Truthy(is_deleted)
        THEN OraMerge(cursor, OracleParams(role, role_id))
        ELSE OraDelete(cursor, role_id)

update_oracle_role(cursor, role, operation_type) ==
    LET role_id    == Get(role, "role_id", None)
        is_deleted == Get(role, "is_deleted", False)
        params     == OracleParams(role, role_id)
    IN  IF ~Truthy(role_id) THEN cursor
        ELSE IF operation_type \in {Str("insert"), Str("update"), Str("replace")}
                /\ ~Truthy(is_deleted)
        THEN OraMerge(cursor, params)
        ELSE IF operation_type = Str("delete") \/ Truthy(is_deleted)
        THEN OraDelete(cursor, role_id)
        ELSE cursor

(***************************************************************************)
(* process_event: the pair of cursors after the event, either of which may *)
(* carry a raised exception.  A call that raises ends the function.        *)
(***************************************************************************)
EmptyDoc ==
    [_id |-> Missing, role_id |-> Missing, is_deleted |-> Missing,
     role_name |-> Missing, create_date |-> Missing,
     last_update_date |-> Missing, creator_id |-> Missing,
     last_updater_id |-> Missing]

EmptyEvent ==
    [operationType |-> Missing, fullDocument |-> Missing,
     documentKey |-> Missing]

\* variant: an operation kind that is not recognised is handled as an update
process_event_default_update(record, redshift_cursor, oracle_cursor) ==
    LET event_data     == Get(record, "event", EmptyEvent)
        operation_type == Get(event_data, "operationType", None)
        full_document  == Get(event_data, "fullDocument", EmptyDoc)
        document_key   == Get(event_data, "documentKey", EmptyDoc)
        ThenOracle(rc, doc, op) ==
            [rs  |-> rc,
             ora |-> IF rc.raised THEN oracle_cursor
                     ELSE update_oracle_role(
                            [oracle_cursor EXCEPT !.clock = rc.clock],
                            doc, op)]
    IN  IF operation_type = Str("insert")
        THEN ThenOracle(insert_redshift_role(redshift_cursor, full_document),
                        full_document, operation_type)
        ELSE IF operation_type = Str("delete")
        THEN ThenOracle(redshift_cursor, document_key, operation_type)
        ELSE ThenOracle(update_redshift_role(redshift_cursor, full_document),
                        full_document, Str("update"))

\* variant: a delete event hands the full document to the config-store sink
process_event_delete_full_document(record, redshift_cursor, oracle_cursor) ==
    LET event_data     == Get(record, "event", EmptyEvent)
        operation_type == Get(event_data, "operationType", None)
        full_document  == Get(event_data, "fullDocument", EmptyDoc)
        ThenOracle(rc, doc) ==
            [rs  |-> rc,
             ora |-> IF rc.raised THEN oracle_cursor
                     ELSE update_oracle_role(
                            [oracle_cursor EXCEPT !.clock = rc.clock],
                            doc, operation_type)]
    IN  IF operation_type = Str("insert")
        THEN ThenOracle(insert_redshift_role(redshift_cursor, full_document),
                        full_document)
        ELSE IF operation_type = Str("update") \/ operation_type = Str("replace")
        THEN ThenOracle(update_redshift_role(redshift_cursor, full_document),
                        full_document)
        ELSE IF operation_type = Str("delete")
        THEN ThenOracle(redshift_cursor, full_document)
        ELSE [rs |-> redshift_cursor, ora |-> oracle_cursor]

\* variant: the config-store sink is called before the warehouse sink
process_event_oracle_first(record, redshift_cursor, oracle_cursor) ==
    LET event_data     == Get(record, "event", EmptyEvent)
        operation_type == Get(event_data, "operationType", None)
        full_document  == Get(event_data, "fullDocument", EmptyDoc)
        document_key   == Get(event_data, "documentKey", EmptyDoc)
        oc             == update_oracle_role(oracle_cursor, full_document,
                                             operation_type)
        rc             == [redshift_cursor EXCEPT !.clock = oc.clock]
    IN  IF operation_type = Str("insert")
        THEN [rs  |-> IF oc.raised THEN redshift_cursor
                      ELSE insert_redshift_role(rc, full_document),
              ora |-> oc]
        ELSE IF operation_type = Str("update") \/ operation_type = Str("replace")
        THEN [rs  |-> IF oc.raised THEN redshift_cursor
                      ELSE update_redshift_role(rc, full_document),
              ora |-> oc]
        ELSE IF operation_type = Str("delete")
        THEN [rs  |-> redshift_cursor,
              ora |-> update_oracle_role(oracle_cursor, document_key,
                                         operation_type)]
        ELSE [rs |-> redshift_cursor, ora |-> oracle_cursor]

\* variant: an insert, update or replace event that lacks one of the two
\* identifiers is applied to neither store
process_event_skip_together(record, redshift_cursor, oracle_cursor) ==
    LET event_data     == Get(record, "event", EmptyEvent)
        operation_type == Get(event_data, "operationType", None)
        full_document  == Get(event_data, "fullDocument", EmptyDoc)
        document_key   == Get(event_data, "documentKey", EmptyDoc)
        complete       == /\ Truthy(extract_id(full_document))
                          /\ Truthy(Get(full_document, "role_id", None))
        ThenOracle(rc, doc) ==
            [rs  |-> rc,
             ora |-> IF rc.raised THEN oracle_cursor
                     ELSE update_oracle_role(
                            [oracle_cursor EXCEPT !.clock = rc.clock],
                            doc, operation_type)]
    IN  IF operation_type = Str("insert") /\ complete
        THEN ThenOracle(insert_redshift_role(redshift_cursor, full_document),
                        full_document)
        ELSE IF (operation_type = Str("update") \/ operation_type = Str("replace"))
                /\ complete
        THEN ThenOracle(update_redshift_role(redshift_cursor, full_document),
                        full_document)
        ELSE IF operation_type = Str("delete")
        THEN ThenOracle(redshift_cursor, document_key)
        ELSE [rs |-> redshift_cursor, ora |-> oracle_cursor]

process_event(record, redshift_cursor, oracle_cursor) ==
    LET event_data     == Get(record, "event", EmptyEvent)
        operation_type == Get(event_data, "operationType", None)
        full_document  == Get(event_data, "fullDocument", EmptyDoc)
        document_key   == Get(event_data, "documentKey", EmptyDoc)
        ThenOracle(rc, doc) ==
            [rs  |-> rc,
             ora |-> IF rc.raised THEN oracle_cursor
                     ELSE update_oracle_role(
                            [oracle_cursor EXCEPT !.clock = rc.clock],
                            doc, operation_type)]
    IN  IF operation_type = Str("insert")
        THEN ThenOracle(insert_redshift_role(redshift_cursor, full_document),
                        full_document)
        ELSE IF operation_type = Str("update") \/ operation_type = Str("replace")
        THEN ThenOracle(update_redshift_role(redshift_cursor, full_document),
                        full_document)
        ELSE IF operation_type = Str("delete")
        THEN ThenOracle(redshift_cursor, document_key)
        ELSE [rs |-> redshift_cursor, ora |-> oracle_cursor]

(***************************************************************************)
(* The inputs of lambda_handler.                                           *)
(***************************************************************************)
Doc(id, role_id, is_deleted, role_name) ==
    [EmptyDoc EXCEPT !._id = id, !.role_id = role_id,
                     !.is_deleted = is_deleted, !.role_name = role_name]

Record(operationType, fullDocument, documentKey) ==
    [event |-> [operationType |-> operationType,
                fullDocument |-> fullDocument, documentKey |-> documentKey]]

\* documentKey of a document: its role_id alone
KeyOf(doc) == [EmptyDoc EXCEPT !.role_id = doc.role_id]

\* the change events of the batches: every operation kind, documents with
\* and without _id, role_id and is_deleted
FullDoc ==
    [Doc(Oid(Str("X")), Str("admin"), Missing, Str("Administrator"))
        EXCEPT !.create_date = Str("2023-07-01"),
               !.last_update_date = Str("2023-07-02")]

\* a second role, whose document names a creator and an updater of its own
GuestDoc ==
    [Doc(Oid(Str("Y")), Str("guest"), Missing, Str("Guest"))
        EXCEPT !.create_date = Str("2023-07-03"),
               !.last_update_date = Str("2023-07-04"),
               !.creator_id = Str("alice"),
               !.last_updater_id = Str("bob")]

Records ==
    {Record(Str("insert"), FullDoc, KeyOf(FullDoc)),
     Record(Str("insert"), [FullDoc EXCEPT !._id = Missing], KeyOf(FullDoc)),
     Record(Str("insert"), GuestDoc, KeyOf(GuestDoc)),
     Record(Str("update"), [FullDoc EXCEPT !.role_name = Str("Admin")],
            KeyOf(FullDoc)),
     Record(Str("update"), [FullDoc EXCEPT !.role_id = Missing], EmptyDoc),
     Record(Str("replace"), [FullDoc EXCEPT !.is_deleted = True],
            KeyOf(FullDoc)),
     Record(Str("delete"), EmptyDoc, KeyOf(FullDoc)),
     Record(Str("delete"), EmptyDoc, EmptyDoc),
     Record(Str("unknown"), FullDoc, KeyOf(FullDoc)),
     Record(Missing, FullDoc, KeyOf(FullDoc))}

RECURSIVE SeqsUpTo(_, _)
SeqsUpTo(S, n) ==
    IF n = 0 THEN {<< >>}
    ELSE LET shorter == SeqsUpTo(S, n - 1)
         IN  shorter \cup {Append(q, x) : q \in {r \in shorter : Len(r) = n - 1},
                                           x \in S}

Batches == SeqsUpTo(Records, MaxBatch)

\* what get_secret returns: the secret's dict, or None after a failure
SecretDict == [t |-> "dict", v |-> "{'dbname': ...}"]

(***************************************************************************)
(* State.                                                                  *)
(***************************************************************************)
VARIABLES
    pc,               \* position in lambda_handler ("unit": direct calls)
    events,           \* event.get('events', []) of the invocation
    idx,              \* number of records the for loop has taken
    redshift_secret,  \* get_secret('RedshiftDEV')
    oracle_secret,    \* get_secret('Oracle-DB-AMC')
    redshift_conn,    \* connection: opened, close calls returned, committed,
                      \* rolled back, commit raised
    redshift_cursor,  \* cursor record, with opened and closed
    oracle_conn,
    oracle_cursor,
    roles,            \* committed rows of documentdb.roles
    cfg_role,         \* committed rows of CFG_ROLE
    exc,              \* an exception is propagating out of lambda_handler
    result,           \* how the invocation ended: "none", "OK", "raised"
    runs,             \* deliveries of the batch (UnitSpec: direct calls)
    rerun,            \* the batch was delivered before and both commits ran
    first,            \* the committed tables when the invocation began
    call              \* UnitSpec: the last direct call and the cursor before it

vars ==
    <<pc, events, idx, redshift_secret, oracle_secret, redshift_conn,
      redshift_cursor, oracle_conn, oracle_cursor, roles, cfg_role, exc,
      result, runs, rerun, first, call>>

NoConn == [opened |-> FALSE, closed |-> 0, committed |-> FALSE,
           rolledback |-> FALSE, commit_raised |-> FALSE,
           rollback_raised |-> FALSE]

NoCursor(tbl) ==
    [tbl |-> tbl, log |-> << >>, rowcount |-> -1, raised |-> FALSE,
     failIn |-> 0, ev |-> 0, clock |-> 0, opened |-> FALSE, closed |-> 0]

NoCall == [fn |-> "none", role |-> EmptyDoc, operation_type |-> None, n |-> 0,
           redshift_before |-> << >>, oracle_before |-> << >>,
           document_key |-> EmptyDoc, returned |-> None]

Init ==
    /\ pc = "idle"
    /\ events = << >>
    /\ idx = 0
    /\ redshift_secret = None
    /\ oracle_secret = None
    /\ redshift_conn = NoConn
    /\ redshift_cursor = NoCursor(<< >>)
    /\ oracle_conn = NoConn
    /\ oracle_cursor = NoCursor(<< >>)
    /\ roles = << >>
    /\ cfg_role = << >>
    /\ exc = FALSE
    /\ result = "none"
    /\ runs = 0
    /\ rerun = FALSE
    /\ first = [roles |-> << >>, cfg_role |-> << >>]
    /\ call = NoCall

(***************************************************************************)
(* lambda_handler, one action per call that can raise.  A behaviour is one *)
(* batch, delivered up to MaxDeliveries times to tables that start empty:  *)
(* invocations share nothing but the committed tables, and what a commit   *)
(* publishes is what the statements of the batch made of them, so the      *)
(* tables after several committed batches are those after the one batch of *)
(* all their events.                                                       *)
(***************************************************************************)
\* lines 116-118: an invocation begins; get_secret never raises, it returns
\* None after a failure
Begin(batch, rsecret, osecret) ==
    /\ pc' = "connect_redshift"
    /\ events' = batch
    /\ idx' = 0
    /\ redshift_secret' = rsecret
    /\ oracle_secret' = osecret
    /\ redshift_conn' = NoConn
    /\ redshift_cursor' = NoCursor(roles)
    /\ oracle_conn' = NoConn
    /\ oracle_cursor' = NoCursor(cfg_role)
    /\ exc' = FALSE
    /\ result' = "none"
    /\ first' = [roles |-> roles, cfg_role |-> cfg_role]
    /\ UNCHANGED <<roles, cfg_role, call>>

\* the batch is delivered
Start(batch, rsecret, osecret) ==
    /\ pc = "idle"
    /\ Begin(batch, rsecret, osecret)
    /\ runs' = 1
    /\ rerun' = FALSE

\* the batch is delivered again; rerun tells that the invocation before
\* returned after both commits
Rerun(rsecret, osecret) ==
    /\ pc = "done"
    /\ runs < MaxDeliveries
    /\ Begin(events, rsecret, osecret)
    /\ runs' = runs + 1
    /\ rerun' = (/\ result = "OK"
                 /\ redshift_conn.committed
                 /\ oracle_conn.committed)

\* an exception leaves lambda_handler
Raise ==
    /\ pc' = "done"
    /\ exc' = TRUE
    /\ result' = "raised"

\* lines 121-128: subscripting None raises TypeError, connect may raise
ConnectRedshift(ok) ==
    /\ pc = "connect_redshift"
    /\ IF redshift_secret = None \/ ~ok
       THEN /\ Raise
            /\ UNCHANGED <<redshift_conn, redshift_cursor>>
       ELSE /\ pc' = "connect_oracle"
            /\ redshift_conn' = [redshift_conn EXCEPT !.opened = TRUE]
            /\ redshift_cursor' = [redshift_cursor EXCEPT !.opened = TRUE]
            /\ UNCHANGED <<exc, result>>
    /\ UNCHANGED <<events, idx, redshift_secret, oracle_secret, oracle_conn,
                   oracle_cursor, roles, cfg_role, runs, rerun, first, call>>

\* lines 131-139
ConnectOracle(ok) ==
    /\ pc = "connect_oracle"
    /\ IF oracle_secret = None \/ ~ok
       THEN /\ Raise
            /\ UNCHANGED <<oracle_conn, oracle_cursor>>
       ELSE /\ pc' = "loop"
            /\ oracle_conn' = [oracle_conn EXCEPT !.opened = TRUE]
            /\ oracle_cursor' = [oracle_cursor EXCEPT !.opened = TRUE]
            /\ UNCHANGED <<exc, result>>
    /\ UNCHANGED <<events, idx, redshift_secret, oracle_secret, redshift_conn,
                   redshift_cursor, roles, cfg_role, runs, rerun, first, call>>

\* lines 144-147 and 150-151: one iteration of the for loop.  rfail and ofail
\* choose the execute of this event that raises on each cursor (0: none).
ProcessRecord(rfail, ofail) ==
    /\ pc = "loop"
    /\ idx < Len(events)
    /\ LET issued == Len(redshift_cursor.log) + Len(oracle_cursor.log)
           after == process_event(
                        events[idx + 1],
                        [redshift_cursor EXCEPT !.failIn = rfail, !.ev = idx + 1,
                                                !.clock = issued],
                        [oracle_cursor EXCEPT !.failIn = ofail, !.ev = idx + 1,
                                              !.clock = issued])
           raised == after.rs.raised \/ after.ora.raised
       IN  /\ redshift_cursor' = [after.rs EXCEPT !.failIn = 0, !.raised = FALSE,
                                                  !.clock = 0]
           /\ oracle_cursor' = [after.ora EXCEPT !.failIn = 0, !.raised = FALSE,
                                                 !.clock = 0]
           /\ pc' = IF raised THEN "except" ELSE "loop"
    /\ idx' = idx + 1
    /\ UNCHANGED <<events, redshift_secret, oracle_secret, redshift_conn,
                   oracle_conn, roles, cfg_role, exc, result, runs, rerun,
                   first, call>>

\* variant: a commit of the warehouse that raises is passed over
CommitRedshiftUnchecked(ok) ==
    /\ pc = "loop"
    /\ idx = Len(events)
    /\ pc' = "commit_oracle"
    /\ IF ok
       THEN /\ redshift_conn' = [redshift_conn EXCEPT !.committed = TRUE]
            /\ roles' = redshift_cursor.tbl
       ELSE /\ redshift_conn' = [redshift_conn EXCEPT !.commit_raised = TRUE]
            /\ UNCHANGED roles
    /\ UNCHANGED <<events, idx, redshift_secret, oracle_secret,
                   redshift_cursor, oracle_conn, oracle_cursor, cfg_role, exc,
                   result, runs, rerun, first, call>>

\* line 148
CommitRedshift(ok) ==
    /\ pc = "loop"
    /\ idx = Len(events)
    /\ IF ok
       THEN /\ pc' = "commit_oracle"
            /\ redshift_conn' = [redshift_conn EXCEPT !.committed = TRUE]
            /\ roles' = redshift_cursor.tbl
       ELSE /\ pc' = "except"
            /\ redshift_conn' = [redshift_conn EXCEPT !.commit_raised = TRUE]
            /\ UNCHANGED roles
    /\ UNCHANGED <<events, idx, redshift_secret, oracle_secret,
                   redshift_cursor, oracle_conn, oracle_cursor, cfg_role, exc,
                   result, runs, rerun, first, call>>

\* line 149
CommitOracle(ok) ==
    /\ pc = "commit_oracle"
    /\ IF ok
       THEN /\ pc' = "close_redshift_cursor"
            /\ oracle_conn' = [oracle_conn EXCEPT !.committed = TRUE]
            /\ cfg_role' = oracle_cursor.tbl
       ELSE /\ pc' = "except"
            /\ oracle_conn' = [oracle_conn EXCEPT !.commit_raised = TRUE]
            /\ UNCHANGED cfg_role
    /\ UNCHANGED <<events, idx, redshift_secret, oracle_secret, redshift_conn,
                   redshift_cursor, oracle_cursor, roles, exc, result, runs,
                   rerun, first, call>>

\* line 152: rollback discards what the transaction has not committed; a
\* rollback that raises leaves the except block for the finally block
RollbackRedshift(ok) ==
    /\ pc = "except"
    /\ IF ok
       THEN /\ pc' = "rollback_oracle"
            /\ redshift_conn' = [redshift_conn EXCEPT !.rolledback = TRUE]
            /\ redshift_cursor' = [redshift_cursor EXCEPT !.tbl = roles]
            /\ UNCHANGED exc
       ELSE /\ pc' = "close_redshift_cursor"
            /\ exc' = TRUE
            /\ redshift_conn' = [redshift_conn EXCEPT !.rollback_raised = TRUE]
            /\ UNCHANGED redshift_cursor
    /\ UNCHANGED <<events, idx, redshift_secret, oracle_secret, oracle_conn,
                   oracle_cursor, roles, cfg_role, result, runs, rerun, first,
                   call>>

\* line 153
RollbackOracle(ok) ==
    /\ pc = "rollback_oracle"
    /\ pc' = "close_redshift_cursor"
    /\ IF ok
       THEN /\ oracle_conn' = [oracle_conn EXCEPT !.rolledback = TRUE]
            /\ oracle_cursor' = [oracle_cursor EXCEPT !.tbl = cfg_role]
            /\ UNCHANGED exc
       ELSE /\ exc' = TRUE
            /\ oracle_conn' = [oracle_conn EXCEPT !.rollback_raised = TRUE]
            /\ UNCHANGED oracle_cursor
    /\ UNCHANGED <<events, idx, redshift_secret, oracle_secret, redshift_conn,
                   redshift_cursor, roles, cfg_role, result, runs, rerun,
                   first, call>>

\* lines 154-158: the finally block; a close that raises ends it
CloseRedshiftCursor(ok) ==
    /\ pc = "close_redshift_cursor"
    /\ IF ok
       THEN /\ pc' = "close_redshift_conn"
            /\ redshift_cursor' = [redshift_cursor EXCEPT !.closed = @ + 1]
            /\ UNCHANGED <<exc, result>>
       ELSE /\ Raise
            /\ UNCHANGED redshift_cursor
    /\ UNCHANGED <<events, idx, redshift_secret, oracle_secret, redshift_conn,
                   oracle_conn, oracle_cursor, roles, cfg_role, runs, rerun,
                   first, call>>

CloseRedshiftConn(ok) ==
    /\ pc = "close_redshift_conn"
    /\ IF ok
       THEN /\ pc' = "close_oracle_cursor"
            /\ redshift_conn' = [redshift_conn EXCEPT !.closed = @ + 1]
            /\ UNCHANGED <<exc, result>>
       ELSE /\ Raise
            /\ UNCHANGED redshift_conn
    /\ UNCHANGED <<events, idx, redshift_secret, oracle_secret,
                   redshift_cursor, oracle_conn, oracle_cursor, roles,
                   cfg_role, runs, rerun, first, call>>

CloseOracleCursor(ok) ==
    /\ pc = "close_oracle_cursor"
    /\ IF ok
       THEN /\ pc' = "close_oracle_conn"
            /\ oracle_cursor' = [oracle_cursor EXCEPT !.closed = @ + 1]
            /\ UNCHANGED <<exc, result>>
       ELSE /\ Raise
            /\ UNCHANGED oracle_cursor
    /\ UNCHANGED <<events, idx, redshift_secret, oracle_secret, redshift_conn,
                   redshift_cursor, oracle_conn, roles, cfg_role, runs, rerun,
                   first, call>>

CloseOracleConn(ok) ==
    /\ pc = "close_oracle_conn"
    /\ IF ok
       THEN /\ pc' = "return"
            /\ oracle_conn' = [oracle_conn EXCEPT !.closed = @ + 1]
            /\ UNCHANGED <<exc, result>>
       ELSE /\ Raise
            /\ UNCHANGED oracle_conn
    /\ UNCHANGED <<events, idx, redshift_secret, oracle_secret, redshift_conn,
                   redshift_cursor, oracle_cursor, roles, cfg_role, runs,
                   rerun, first, call>>

\* lines 159-161: an exception raised in the except block is re-raised when
\* the finally block ends; otherwise the handler returns 'OK'
Return ==
    /\ pc = "return"
    /\ pc' = "done"
    /\ result' = IF exc THEN "raised" ELSE "OK"
    /\ UNCHANGED <<events, idx, redshift_secret, oracle_secret, redshift_conn,
                   redshift_cursor, oracle_conn, oracle_cursor, roles,
                   cfg_role, exc, runs, rerun, first, call>>

Next ==
    \/ /\ pc = "idle"
       /\ \E batch \in Batches, rsecret, osecret \in {None, SecretDict} :
                Start(batch, rsecret, osecret)
    \/ \E rsecret, osecret \in {None, SecretDict} : Rerun(rsecret, osecret)
    \/ \E ok \in BOOLEAN : ConnectRedshift(ok)
    \/ \E ok \in BOOLEAN : ConnectOracle(ok)
    \/ \E rfail \in 0..2, ofail \in 0..1 : ProcessRecord(rfail, ofail)
    \/ \E ok \in BOOLEAN : CommitRedshift(ok)
    \/ \E ok \in BOOLEAN : CommitOracle(ok)
    \/ \E ok \in BOOLEAN : RollbackRedshift(ok)
    \/ \E ok \in BOOLEAN : RollbackOracle(ok)
    \/ \E ok \in BOOLEAN : CloseRedshiftCursor(ok)
    \/ \E ok \in BOOLEAN : CloseRedshiftConn(ok)
    \/ \E ok \in BOOLEAN : CloseOracleCursor(ok)
    \/ \E ok \in BOOLEAN : CloseOracleConn(ok)
    \/ Return

Spec == Init /\ [][Next]_vars

(***************************************************************************)
(* The sink functions called directly on open cursors, as the unit tests   *)
(* call them, with documents of every shape of _id, role_id and            *)
(* is_deleted and with every operation kind.                               *)
(***************************************************************************)
UnitIds == {Missing, None, Str(""), Str("X"), Oid(Str("X")), Oid(Str("Y"))}

UnitRoleIds == {Missing, None, Str(""), Str("admin"), Str("guest")}

UnitDeleted == {Missing, None, True, False}

UnitOps ==
    {Str("insert"), Str("update"), Str("replace"), Str("delete"),
     Str("unknown"), None}

RedshiftRoles ==
    {Doc(id, Str("admin"), Missing, role_name) :
        id \in UnitIds, role_name \in {Str("Administrator"), Str("Admin")}}

OracleRoles ==
    {[Doc(Str("X"), role_id, is_deleted, Str("Administrator"))
        EXCEPT !.creator_id = by, !.last_updater_id = by] :
        role_id \in UnitRoleIds, is_deleted \in UnitDeleted,
        by \in {Missing, Str("alice")}}

\* documents for extract_id: _id missing, None, empty and non-empty values
\* of each type, and '$oid' wrappers of each of them
ExtractIds ==
    UnitIds \cup {PyInt("7"), PyInt("0"), EmptyDict, OtherDict,
                  Oid(Str("")), Oid(PyInt("7")), Oid(None)}

ExtractDocs == {Doc(id, Str("admin"), Missing, Str("Administrator")) :
                    id \in ExtractIds}

UnitInit ==
    /\ pc = "unit"
    /\ events = << >>
    /\ idx = 0
    /\ redshift_secret = None
    /\ oracle_secret = None
    /\ redshift_conn = [NoConn EXCEPT !.opened = TRUE]
    /\ redshift_cursor = [NoCursor(<< >>) EXCEPT !.opened = TRUE]
    /\ oracle_conn = [NoConn EXCEPT !.opened = TRUE]
    /\ oracle_cursor = [NoCursor(<< >>) EXCEPT !.opened = TRUE]
    /\ roles = << >>
    /\ cfg_role = << >>
    /\ exc = FALSE
    /\ result = "none"
    /\ runs = 0
    /\ rerun = FALSE
    /\ first = [roles |-> << >>, cfg_role |-> << >>]
    /\ call = NoCall

\* the call is recorded with its arguments and the rows each cursor saw
CalledWith(fn, role, operation_type, document_key, returned) ==
    /\ pc = "unit"
    /\ runs < MaxCalls
    /\ runs' = runs + 1
    /\ call' = [fn |-> fn, role |-> role, operation_type |-> operation_type,
                n |-> runs + 1, redshift_before |-> redshift_cursor.tbl,
                oracle_before |-> oracle_cursor.tbl,
                document_key |-> document_key, returned |-> returned]
    /\ UNCHANGED <<pc, events, idx, redshift_secret, oracle_secret,
                   redshift_conn, oracle_conn, roles, cfg_role, exc, result,
                   rerun, first>>

Called(fn, role, operation_type) ==
    CalledWith(fn, role, operation_type, EmptyDoc, None)

\* extract_id(doc): the value it returns is recorded with the call
CallExtractId(doc) ==
    /\ CalledWith("extract_id", doc, None, EmptyDoc, extract_id(doc))
    /\ UNCHANGED <<redshift_cursor, oracle_cursor>>

\* process_event(record, redshift_cursor, oracle_cursor) on the open cursors
CallProcessEvent(record) ==
    /\ CalledWith("process_event",
                  Get(Get(record, "event", EmptyEvent), "fullDocument", EmptyDoc),
                  Get(Get(record, "event", EmptyEvent), "operationType", None),
                  Get(Get(record, "event", EmptyEvent), "documentKey", EmptyDoc),
                  None)
    /\ LET issued == Len(redshift_cursor.log) + Len(oracle_cursor.log)
           after == process_event(
                        record,
                        [redshift_cursor EXCEPT !.ev = runs + 1, !.clock = issued],
                        [oracle_cursor EXCEPT !.ev = runs + 1, !.clock = issued])
       IN  /\ redshift_cursor' = [after.rs EXCEPT !.clock = 0]
           /\ oracle_cursor' = [after.ora EXCEPT !.clock = 0]

CallInsertRedshiftRole(role) ==
    /\ Called("insert_redshift_role", role, None)
    /\ LET issued == Len(redshift_cursor.log) + Len(oracle_cursor.log)
           after == insert_redshift_role(
                        [redshift_cursor EXCEPT !.ev = runs + 1, !.clock = issued],
                        role)
       IN  redshift_cursor' = [after EXCEPT !.clock = 0]
    /\ UNCHANGED oracle_cursor

CallUpdateRedshiftRole(role) ==
    /\ Called("update_redshift_role", role, None)
    /\ LET issued == Len(redshift_cursor.log) + Len(oracle_cursor.log)
           after == update_redshift_role(
                        [redshift_cursor EXCEPT !.ev = runs + 1, !.clock = issued],
                        role)
       IN  redshift_cursor' = [after EXCEPT !.clock = 0]
    /\ UNCHANGED oracle_cursor

CallUpdateOracleRole(role, operation_type) ==
    /\ Called("update_oracle_role", role, operation_type)
    /\ LET issued == Len(redshift_cursor.log) + Len(oracle_cursor.log)
           after == update_oracle_role(
                        [oracle_cursor EXCEPT !.ev = runs + 1, !.clock = issued],
                        role, operation_type)
       IN  oracle_cursor' = [after EXCEPT !.clock = 0]
    /\ UNCHANGED redshift_cursor

UnitNext ==
    \/ \E role \in RedshiftRoles : CallInsertRedshiftRole(role)
    \/ \E role \in RedshiftRoles : CallUpdateRedshiftRole(role)
    \/ \E role \in OracleRoles, operation_type \in UnitOps :
            CallUpdateOracleRole(role, operation_type)
    \/ \E doc \in ExtractDocs : CallExtractId(doc)
    \/ \E record \in Records : CallProcessEvent(record)

UnitSpec == UnitInit /\ [][UnitNext]_vars

(***************************************************************************)
(* Vocabulary of the properties.                                           *)
(***************************************************************************)
\* the statements an event (or a direct call) put on a cursor's log
StmtsOf(cursor, i) == SelectSeq(cursor.log, LAMBDA st : st.ev = i)

Kinds(stmts) == [j \in 1..Len(stmts) |-> stmts[j].k]

\* an execute of the invocation raised
ExecuteRaised ==
    \/ \E j \in 1..Len(redshift_cursor.log) : ~redshift_cursor.log[j].ok
    \/ \E j \in 1..Len(oracle_cursor.log) : ~oracle_cursor.log[j].ok

\* a store operation of the invocation raised
StoreFailed ==
    \/ ExecuteRaised
    \/ redshift_conn.commit_raised
    \/ oracle_conn.commit_raised
    \/ exc

BothCommitted == redshift_conn.committed /\ oracle_conn.committed

OpOf(record) == Get(Get(record, "event", EmptyEvent), "operationType", None)

FullDocumentOf(record) ==
    Get(Get(record, "event", EmptyEvent), "fullDocument", EmptyDoc)

DocumentKeyOf(record) ==
    Get(Get(record, "event", EmptyEvent), "documentKey", EmptyDoc)

Upserting(record) == OpOf(record) \in {Str("insert"), Str("update"), Str("replace")}

Supported(record) == Upserting(record) \/ OpOf(record) = Str("delete")

HasId(doc) == Truthy(extract_id(doc))

HasRoleId(doc) == Truthy(Get(doc, "role_id", None))

\* an event that lacks an identifier one of its sinks needs
LacksIdentifier(record) ==
    \/ Upserting(record) /\ ~HasId(FullDocumentOf(record))
    \/ Upserting(record) /\ ~HasRoleId(FullDocumentOf(record))
    \/ OpOf(record) = Str("delete") /\ ~HasRoleId(DocumentKeyOf(record))

WellFormed(record) ==
    /\ Upserting(record)
    /\ HasId(FullDocumentOf(record))
    /\ HasRoleId(FullDocumentOf(record))

\* no two rows of the table have the same value in the key column
UniqueIds(tbl) ==
    \A i, j \in 1..Len(tbl) : tbl[i].id = tbl[j].id => i = j

(***************************************************************************)
(* C1.  As claimed: whatever store operation raises, an invocation never   *)
(* ends with one store's transaction committed and the other's not.        *)
(***************************************************************************)
C1_BothOrNeither ==
    pc = "done" => (redshift_conn.committed <=> oracle_conn.committed)

(* C1, amended: the config store is never committed without the warehouse, *)
(* and the warehouse is committed without the config store only when the   *)
(* config-store commit itself raised after the warehouse commit returned;  *)
(* an execute or a warehouse commit that raises leaves neither committed   *)
(* and both tables as they were; when nothing raises, both commit.         *)
C1_PartialOnlyAtOracleCommit ==
    /\ oracle_conn.committed => redshift_conn.committed
    /\ redshift_conn.committed /\ pc \notin {"commit_oracle"}
            => (oracle_conn.committed \/ oracle_conn.commit_raised)
    /\ (ExecuteRaised \/ redshift_conn.commit_raised)
            => ~redshift_conn.committed /\ ~oracle_conn.committed
    /\ ~redshift_conn.committed => roles = first.roles
    /\ ~oracle_conn.committed => cfg_role = first.cfg_role
    /\ pc = "done" /\ redshift_conn.opened /\ oracle_conn.opened
        /\ ~ExecuteRaised /\ ~redshift_conn.commit_raised
        /\ ~oracle_conn.commit_raised
            => BothCommitted

\* an execute raised, both rollbacks ran and the invocation ended
C1_Witness ==
    /\ pc = "done"
    /\ ExecuteRaised
    /\ redshift_conn.rolledback
    /\ oracle_conn.rolledback
    /\ Len(redshift_cursor.log) > 1

(***************************************************************************)
(* C2.  As claimed: when an invocation ends, every connection and cursor   *)
(* it opened has been closed exactly once.                                 *)
(***************************************************************************)
C2_ClosedExactlyOnce ==
    pc = "done" =>
        /\ redshift_conn.opened => redshift_conn.closed = 1
        /\ redshift_cursor.opened => redshift_cursor.closed = 1
        /\ oracle_conn.opened => oracle_conn.closed = 1
        /\ oracle_cursor.opened => oracle_cursor.closed = 1

(***************************************************************************)
(* C3.  As claimed: the success token is returned only when both stores    *)
(* committed; a store operation that raised ends the invocation in a       *)
(* failure its caller sees.                                                *)
(***************************************************************************)
C3_FailureReachesCaller ==
    pc = "done" =>
        /\ result = "OK" => BothCommitted
        /\ (ExecuteRaised \/ redshift_conn.commit_raised
                \/ oracle_conn.commit_raised) => result = "raised"

(***************************************************************************)
(* C4.  When no store operation raises, events that lack an identifier     *)
(* neither stop the loop nor cause a rollback: every event is processed,   *)
(* every well-formed event puts its statement on both cursors, under its   *)
(* own identifiers, and both transactions commit what the cursors hold.    *)
(***************************************************************************)
C4_MissingIdentifierSkipped ==
    /\ pc \in {"except", "rollback_oracle"} => StoreFailed
    /\ pc = "done" /\ redshift_conn.opened /\ oracle_conn.opened /\ ~StoreFailed
        =>  /\ idx = Len(events)
            /\ BothCommitted
            /\ ~redshift_conn.rolledback /\ ~oracle_conn.rolledback
            /\ roles = redshift_cursor.tbl
            /\ cfg_role = oracle_cursor.tbl
            /\ \A i \in 1..Len(events) :
                /\ WellFormed(events[i]) =>
                    /\ \E j \in 1..Len(redshift_cursor.log) :
                        /\ redshift_cursor.log[j].ev = i
                        /\ redshift_cursor.log[j].ok
                        /\ redshift_cursor.log[j].key
                                = extract_id(FullDocumentOf(events[i])).v
                    /\ \E j \in 1..Len(oracle_cursor.log) :
                        /\ oracle_cursor.log[j].ev = i
                        /\ oracle_cursor.log[j].ok
                        /\ oracle_cursor.log[j].key
                                = FullDocumentOf(events[i]).role_id.v
                /\ OpOf(events[i]) = Str("delete")
                        /\ HasRoleId(DocumentKeyOf(events[i])) =>
                    Kinds(StmtsOf(oracle_cursor, i)) = <<"DELETE">>

\* a committed batch of an event without identifier followed by a
\* well-formed one
C4_Witness ==
    /\ pc = "done"
    /\ ~StoreFailed
    /\ BothCommitted
    /\ Len(events) = 2
    /\ LacksIdentifier(events[1])
    /\ WellFormed(events[2])
    /\ Len(roles) > Len(first.roles)

(***************************************************************************)
(* C5.  As claimed: the warehouse table holds at most one row per          *)
(* canonical id, and no INSERT is issued for an id that already has a row. *)
(***************************************************************************)
C5_OneRowPerId ==
    /\ UniqueIds(roles)
    /\ \A j \in 1..Len(redshift_cursor.log) :
            redshift_cursor.log[j].k = "INSERT" => redshift_cursor.log[j].hit = 0

(***************************************************************************)
(* C6.  As claimed: a batch delivered a second time, after both commits of *)
(* its first delivery, commits again and leaves both tables as they were.  *)
(***************************************************************************)
C6_Idempotent ==
    pc = "done" /\ rerun /\ redshift_conn.opened /\ oracle_conn.opened
        /\ ~StoreFailed
        =>  /\ BothCommitted
            /\ roles = first.roles
            /\ cfg_role = first.cfg_role

(***************************************************************************)
(* C7.  update_redshift_role on a document with a canonical id: when no    *)
(* row has the id it executes one UPDATE, which matches no row, and then   *)
(* one INSERT; when a row has the id it executes one UPDATE and nothing    *)
(* else.  It executes no other kind of statement (no read of the table).   *)
(***************************************************************************)
C7_UpdateThenInsert ==
    call.fn = "update_redshift_role" /\ HasId(call.role) =>
        LET id    == extract_id(call.role).v
            stmts == StmtsOf(redshift_cursor, call.n)
            exists == \E i \in 1..Len(call.redshift_before) :
                            call.redshift_before[i].id = id
        IN  /\ \A j \in 1..Len(stmts) : stmts[j].key = id /\ stmts[j].ok
            /\ IF exists
               THEN /\ Kinds(stmts) = <<"UPDATE">>
                    /\ stmts[1].rc > 0
                    /\ Len(redshift_cursor.tbl) = Len(call.redshift_before)
               ELSE /\ Kinds(stmts) = <<"UPDATE", "INSERT">>
                    /\ stmts[1].rc = 0
                    /\ Len(redshift_cursor.tbl) = Len(call.redshift_before) + 1

\* the second of two calls found the row the first one inserted
C7_Witness ==
    /\ call.fn = "update_redshift_role"
    /\ HasId(call.role)
    /\ call.n = 2
    /\ Kinds(StmtsOf(redshift_cursor, 1)) = <<"UPDATE", "INSERT">>
    /\ Kinds(StmtsOf(redshift_cursor, 2)) = <<"UPDATE">>

(***************************************************************************)
(* C8.  update_oracle_role on a document with a role_id and a true         *)
(* is_deleted, under any operation kind but delete, executes one DELETE of *)
(* that role_id and no MERGE.                                              *)
(***************************************************************************)
C8_DeletedFlagDeletes ==
    /\ call.fn = "update_oracle_role"
    /\ HasRoleId(call.role)
    /\ Truthy(Get(call.role, "is_deleted", False))
    /\ call.operation_type # Str("delete")
    =>  LET stmts == StmtsOf(oracle_cursor, call.n)
        IN  /\ Kinds(stmts) = <<"DELETE">>
            /\ stmts[1].key = call.role.role_id.v
            /\ \A i \in 1..Len(oracle_cursor.tbl) :
                    oracle_cursor.tbl[i].ROLEID # call.role.role_id.v

\* an update of a merged role with is_deleted true removed its row
C8_Witness ==
    /\ call.fn = "update_oracle_role"
    /\ call.operation_type = Str("update")
    /\ call.role.is_deleted = True
    /\ HasRoleId(call.role)
    /\ Len(call.oracle_before) = 1
    /\ call.oracle_before[1].ROLEID = call.role.role_id.v
    /\ oracle_cursor.tbl = << >>

(***************************************************************************)
(* C9.  update_oracle_role under operation kind delete executes no MERGE   *)
(* and adds no row, whatever the document and its is_deleted; with a       *)
(* role_id (a non-empty value) it executes exactly one DELETE of it.       *)
(***************************************************************************)
C9_DeleteNeverMerges ==
    call.fn = "update_oracle_role" /\ call.operation_type = Str("delete") =>
        LET stmts == StmtsOf(oracle_cursor, call.n)
        IN  /\ \A j \in 1..Len(stmts) : stmts[j].k # "MERGE"
            /\ Len(oracle_cursor.tbl) <= Len(call.oracle_before)
            /\ \A i \in 1..Len(oracle_cursor.tbl) :
                    \E j \in 1..Len(call.oracle_before) :
                        oracle_cursor.tbl[i] = call.oracle_before[j]
            /\ HasRoleId(call.role) =>
                    /\ Kinds(stmts) = <<"DELETE">>
                    /\ stmts[1].key = call.role.role_id.v
            /\ ~HasRoleId(call.role) => stmts = << >>

\* a delete with is_deleted false removed the row of its role_id
C9_Witness ==
    /\ call.fn = "update_oracle_role"
    /\ call.operation_type = Str("delete")
    /\ call.role.is_deleted = False
    /\ HasRoleId(call.role)
    /\ Len(call.oracle_before) = 1
    /\ oracle_cursor.tbl = << >>

(***************************************************************************)
(* C10.  Processing an event whose operation kind is none of insert,       *)
(* update, replace and delete (or is missing) executes nothing on either   *)
(* cursor, raises nothing and leaves the loop running.                     *)
(***************************************************************************)
C10_UnsupportedIgnored ==
    [][pc = "loop" /\ idx < Len(events) /\ ~Supported(events[idx + 1])
        =>  /\ pc' = "loop"
            /\ idx' = idx + 1
            /\ redshift_cursor'.log = redshift_cursor.log
            /\ redshift_cursor'.tbl = redshift_cursor.tbl
            /\ oracle_cursor'.log = oracle_cursor.log
            /\ oracle_cursor'.tbl = oracle_cursor.tbl]_vars

\* a batch with an unsupported event and a supported one was committed
C10_Witness ==
    /\ pc = "done"
    /\ BothCommitted
    /\ Len(events) = 2
    /\ OpOf(events[1]) = None
    /\ WellFormed(events[2])
    /\ StmtsOf(redshift_cursor, 1) = << >>
    /\ StmtsOf(oracle_cursor, 1) = << >>
    /\ StmtsOf(oracle_cursor, 2) # << >>

(***************************************************************************)
(* C11.  Processing a delete event executes nothing on the warehouse       *)
(* cursor and leaves the warehouse table as it was; when the document key  *)
(* has a role_id and the DELETE returns, the config table holds no row of  *)
(* that role_id afterwards and its other rows are as they were.            *)
(***************************************************************************)
C11_DeleteLeavesWarehouse ==
    [][pc = "loop" /\ idx < Len(events) /\ OpOf(events[idx + 1]) = Str("delete")
        =>  LET key == DocumentKeyOf(events[idx + 1])
            IN  /\ idx' = idx + 1
                /\ redshift_cursor'.log = redshift_cursor.log
                /\ redshift_cursor'.tbl = redshift_cursor.tbl
                /\ StmtsOf(redshift_cursor', idx + 1) = << >>
                /\ HasRoleId(key) /\ pc' = "loop" =>
                    /\ Kinds(StmtsOf(oracle_cursor', idx + 1)) = <<"DELETE">>
                    /\ oracle_cursor'.tbl =
                            SelectSeq(oracle_cursor.tbl,
                                      LAMBDA row : row.ROLEID # key.role_id.v)
                    /\ \A i \in 1..Len(oracle_cursor'.tbl) :
                            oracle_cursor'.tbl[i].ROLEID # key.role_id.v]_vars

\* a committed batch inserted a role and then deleted it: the warehouse
\* keeps its row, the config table has lost its own
C11_Witness ==
    /\ pc = "done"
    /\ BothCommitted
    /\ Len(events) = 2
    /\ WellFormed(events[1])
    /\ OpOf(events[2]) = Str("delete")
    /\ HasRoleId(DocumentKeyOf(events[2]))
    /\ StmtsOf(redshift_cursor, 2) = << >>
    /\ Kinds(StmtsOf(oracle_cursor, 2)) = <<"DELETE">>
    /\ Len(roles) = 1
    /\ cfg_role = << >>

(***************************************************************************)
(* C12.  As claimed: for a document whose _id is {'$oid': V}, extract_id   *)
(* returns V as a string, whatever V is.                                   *)
(***************************************************************************)
C12_WrappedReturnsString ==
    call.fn = "extract_id" /\ call.role._id.t = "oid"
        => call.returned = PyStr(call.role._id.oid)

C14_NoneOrNonEmptyString ==
    call.fn = "extract_id"
        => \/ call.returned = None
           \/ call.returned.t = "str" /\ call.returned.v # ""

(***************************************************************************)
(* C15.  As claimed: a commit is invoked only when every event of the      *)
(* batch has been processed; once an execute has raised, no later event    *)
(* issues a statement, commit is invoked on neither connection, and when   *)
(* the invocation ends rollback has been invoked on both connections.      *)
(***************************************************************************)
C15_CommitLastElseRollbackBoth ==
    LET CommitInvoked(conn) == conn.committed \/ conn.commit_raised
        RollbackInvoked(conn) == conn.rolledback \/ conn.rollback_raised
        Last(cursor) == cursor.log[Len(cursor.log)]
    IN  /\ CommitInvoked(redshift_conn) \/ CommitInvoked(oracle_conn)
            => idx = Len(events) /\ ~ExecuteRaised
        /\ ExecuteRaised =>
            /\ pc # "loop"
            /\ ~CommitInvoked(redshift_conn) /\ ~CommitInvoked(oracle_conn)
            /\ \A j \in 1..Len(redshift_cursor.log) :
                    /\ redshift_cursor.log[j].ev <= idx
                    /\ ~redshift_cursor.log[j].ok => j = Len(redshift_cursor.log)
            /\ \A j \in 1..Len(oracle_cursor.log) :
                    /\ oracle_cursor.log[j].ev <= idx
                    /\ ~oracle_cursor.log[j].ok => j = Len(oracle_cursor.log)
            /\ \/ redshift_cursor.log # << >> /\ ~Last(redshift_cursor).ok
                    /\ Last(redshift_cursor).ev = idx
                    /\ StmtsOf(oracle_cursor, idx) = << >>
               \/ oracle_cursor.log # << >> /\ ~Last(oracle_cursor).ok
                    /\ Last(oracle_cursor).ev = idx
        /\ pc = "done" /\ ExecuteRaised
            => RollbackInvoked(redshift_conn) /\ RollbackInvoked(oracle_conn)

(***************************************************************************)
(* C16.  The statements of one invocation are issued in the arrival order  *)
(* of the events: on each cursor, and over both cursors together, a        *)
(* statement issued earlier belongs to the same or an earlier event; and   *)
(* within an insert, update or replace event every warehouse statement is  *)
(* issued before the config-store statement.                               *)
(***************************************************************************)
C16_ArrivalOrder ==
    LET rs  == redshift_cursor.log
        ora == oracle_cursor.log
        all == {rs[j] : j \in 1..Len(rs)} \cup {ora[j] : j \in 1..Len(ora)}
    IN  /\ \A j, k \in 1..Len(rs) :
                j < k => rs[j].at < rs[k].at /\ rs[j].ev <= rs[k].ev
        /\ \A j, k \in 1..Len(ora) :
                j < k => ora[j].at < ora[k].at /\ ora[j].ev <= ora[k].ev
        /\ {st.at : st \in all} = 1..(Len(rs) + Len(ora))
        /\ \A a, b \in all : a.at < b.at => a.ev <= b.ev
        /\ \A i \in 1..Len(events) :
                Upserting(events[i]) =>
                    \A j \in 1..Len(rs), k \in 1..Len(ora) :
                        rs[j].ev = i /\ ora[k].ev = i => rs[j].at < ora[k].at

\* a committed batch of two events: the first issued UPDATE, INSERT and
\* then MERGE, the second issued its statements after all of them
C16_Witness ==
    /\ pc = "done"
    /\ BothCommitted
    /\ Len(events) = 2
    /\ Kinds(StmtsOf(redshift_cursor, 1)) = <<"UPDATE", "INSERT">>
    /\ Kinds(StmtsOf(oracle_cursor, 1)) = <<"MERGE">>
    /\ StmtsOf(oracle_cursor, 1)[1].at = 3
    /\ StmtsOf(redshift_cursor, 2) # << >>
    /\ StmtsOf(redshift_cursor, 2)[1].at = 4
    /\ StmtsOf(oracle_cursor, 2) # << >>

(***************************************************************************)
(* C17.  The config table never holds two rows of one role_id.  When an    *)
(* invocation has committed the config store, then for every role_id the   *)
(* batch carries, the table holds no row of it if the last insert, update, *)
(* replace or delete event carrying it was a delete or had is_deleted      *)
(* true, and exactly one row of it otherwise; and it holds rows of no      *)
(* other role_id.                                                          *)
(***************************************************************************)
C17_ConfigFollowsLastEvent ==
    LET Carried(record) ==
            IF OpOf(record) = Str("delete")
            THEN Get(DocumentKeyOf(record), "role_id", None)
            ELSE Get(FullDocumentOf(record), "role_id", None)
        Carries(i) == Supported(events[i]) /\ Truthy(Carried(events[i]))
        Removes(record) ==
            \/ OpOf(record) = Str("delete")
            \/ Truthy(Get(FullDocumentOf(record), "is_deleted", False))
        OneRowPerRoleId(tbl) ==
            \A i, j \in 1..Len(tbl) : tbl[i].ROLEID = tbl[j].ROLEID => i = j
    IN  /\ OneRowPerRoleId(cfg_role)
        /\ OneRowPerRoleId(oracle_cursor.tbl)
        /\ pc = "done" /\ oracle_conn.committed =>
            /\ \A i \in 1..Len(events) :
                    /\ Carries(i)
                    /\ \A j \in (i + 1)..Len(events) :
                            ~(Carries(j) /\ Carried(events[j]) = Carried(events[i]))
                    => Cardinality(OraRowsWithId(cfg_role, Carried(events[i]).v))
                            = IF Removes(events[i]) THEN 0 ELSE 1
            /\ \A k \in 1..Len(cfg_role) :
                    \E i \in 1..Len(events) :
                        Carries(i) /\ Carried(events[i]).v = cfg_role[k].ROLEID

\* a committed batch inserted guest and then deleted admin, after an
\* earlier committed delivery of the same batch: guest has one row, admin none
C17_Witness ==
    /\ pc = "done"
    /\ BothCommitted
    /\ rerun
    /\ Len(events) = 2
    /\ OpOf(events[1]) = Str("insert")
    /\ FullDocumentOf(events[1]) = GuestDoc
    /\ OpOf(events[2]) = Str("delete")
    /\ HasRoleId(DocumentKeyOf(events[2]))
    /\ Len(cfg_role) = 1
    /\ cfg_role[1].ROLEID = "guest"

(***************************************************************************)
(* C18.  insert_redshift_role and update_redshift_role called with a       *)
(* document that has no canonical id, and update_oracle_role called with   *)
(* a document that has no role_id, execute nothing and leave the table as  *)
(* it was.  In process_event each sink skips on its own identifier only:   *)
(* an insert, update or replace event without _id but with role_id still   *)
(* issues its config-store statement, and one with _id but without role_id *)
(* still issues its warehouse statements.                                  *)
(***************************************************************************)
C18_SkipsAreIndependent ==
    LET rs  == StmtsOf(redshift_cursor, call.n)
        ora == StmtsOf(oracle_cursor, call.n)
        RsUntouched  == rs = << >> /\ redshift_cursor.tbl = call.redshift_before
        OraUntouched == ora = << >> /\ oracle_cursor.tbl = call.oracle_before
        upsert == call.operation_type
                    \in {Str("insert"), Str("update"), Str("replace")}
    IN  /\ call.fn \in {"insert_redshift_role", "update_redshift_role"}
            /\ ~HasId(call.role)
                => RsUntouched /\ ~redshift_cursor.raised
        /\ call.fn = "update_oracle_role" /\ ~HasRoleId(call.role)
                => OraUntouched /\ ~oracle_cursor.raised
        /\ call.fn = "process_event" /\ upsert =>
            /\ ~HasId(call.role) => RsUntouched
            /\ ~HasRoleId(call.role) => OraUntouched
            /\ ~HasId(call.role) /\ HasRoleId(call.role)
                    => Kinds(ora) \in {<<"MERGE">>, <<"DELETE">>}
            /\ HasId(call.role) /\ ~HasRoleId(call.role)
                    => Kinds(rs) \in {<<"INSERT">>, <<"UPDATE">>,
                                      <<"UPDATE", "INSERT">>}
        /\ call.fn = "process_event" /\ call.operation_type = Str("delete")
            /\ ~HasRoleId(call.document_key)
                => RsUntouched /\ OraUntouched

\* an insert event without _id was processed after another call: the
\* warehouse is as it was and the config table has the role's row
C18_Witness ==
    /\ call.fn = "process_event"
    /\ call.n = 2
    /\ call.operation_type = Str("insert")
    /\ ~HasId(call.role)
    /\ HasRoleId(call.role)
    /\ Len(call.redshift_before) = 1
    /\ redshift_cursor.tbl = call.redshift_before
    /\ StmtsOf(redshift_cursor, 2) = << >>
    /\ Kinds(StmtsOf(oracle_cursor, 2)) = <<"MERGE">>
    /\ \E i \in 1..Len(oracle_cursor.tbl) :
            oracle_cursor.tbl[i].ROLEID = call.role.role_id.v

(***************************************************************************)
(* C19.  Every row of the config table, inserted or updated by the MERGE   *)
(* of update_oracle_role, has the integration identity americold_compass   *)
(* as MODIFIEDBY, and the MERGE's creator_id and last_updater_id           *)
(* parameters are that identity, also when the document has creator_id and *)
(* last_updater_id fields with other values.                               *)
(***************************************************************************)
C19_IntegrationAttribution ==
    /\ \A i \in 1..Len(oracle_cursor.tbl) :
            oracle_cursor.tbl[i].MODIFIEDBY = IntegrationId
    /\ call.fn = "update_oracle_role"
        /\ Kinds(StmtsOf(oracle_cursor, call.n)) = <<"MERGE">>
            => LET params == OracleParams(call.role, call.role.role_id)
                   rows   == OraRowsWithId(oracle_cursor.tbl, call.role.role_id.v)
               IN  /\ params.creator_id = IntegrationId
                   /\ params.last_updater_id = IntegrationId
                   /\ rows # {}
                   /\ \A i \in rows :
                        oracle_cursor.tbl[i].MODIFIEDBY = IntegrationId

\* a document naming alice as creator and updater was merged into the
\* existing row of its role_id
C19_Witness ==
    /\ call.fn = "update_oracle_role"
    /\ call.n = 2
    /\ call.role.creator_id = Str("alice")
    /\ call.role.last_updater_id = Str("alice")
    /\ HasRoleId(call.role)
    /\ StmtsOf(oracle_cursor, 2) # << >>
    /\ StmtsOf(oracle_cursor, 2)[1].k = "MERGE"
    /\ StmtsOf(oracle_cursor, 2)[1].hit = 1
    /\ Len(oracle_cursor.tbl) = 1
    /\ oracle_cursor.tbl[1].ROLEID = call.role.role_id.v
    /\ oracle_cursor.tbl[1].MODIFIEDBY = IntegrationId

====
